---------------------------- MODULE Spec2Model ----------------------------
(***************************************************************************)
(* Model of src/main.py (screenrec): region resolution, sink (VideoWriter) *)
(* construction, the capture / overlay / preview / write / rate / poll     *)
(* loop, and the except / finally teardown.                                *)
(*                                                                         *)
(* One action per statement group of main(); pc is the position in main(). *)
(* The collaborators (mss, cv2) are modelled by their observable effects:  *)
(* the capture handle being open, the sink lifecycle, the window count,    *)
(* the frames shown / written / saved.                                     *)
(***************************************************************************)
EXTENDS Integers, Sequences, FiniteSets, TLC

(* ------------------------------ bounds -------------------------------- *)

\* Largest number of loop iterations (grabs) explored.
MaxIter == 3

\* Largest monitor index the command line is given (the smallest is -1).
MaxMonitorArg == 3

(* ----------------------- collaborators' data -------------------------- *)

\* sct.monitors: index 0 is the virtual full screen, the others the displays.
\* TLA+ sequences are 1-based, so Python's monitors[i] is Monitors[i + 1].
Monitors ==
  << [left |-> 0,  top |-> 0, width |-> 30, height |-> 10],
     [left |-> 0,  top |-> 0, width |-> 20, height |-> 10],
     [left |-> 20, top |-> 0, width |-> 10, height |-> 8] >>

\* args.region when --region is absent (None): falsy, like the empty list.
NoRegion == << >>

\* Values of --region LEFT TOP WIDTH HEIGHT: absent, a rectangle outside
\* every display, and one with a zero and a negative extent.
Regions == { NoRegion, <<100, 100, 50, 50>>, <<5, 5, 0, -1>> }

MonitorArgs == (-1) .. MaxMonitorArg

\* argparse's default for --monitor.
DefaultMonitor == 1

\* Strings are sequences of one-character strings.
\* argparse's default for --outfile: "capture.mp4".
DefaultOutfile == <<"c", "a", "p", "t", "u", "r", "e", ".", "m", "p", "4">>

\* Values of --outfile: the default, upper-case and other known
\* extensions, an unknown one, none, a dot-file, a dot in the directory
\* only, two extensions, and a trailing dot.
Outfiles ==
  { DefaultOutfile,
    <<"a", ".", "M", "P", "4">>,
    <<"a", ".", "m", "4", "v">>,
    <<"a", ".", "a", "v", "i">>,
    <<"a", ".", "A", "v", "I">>,
    <<"a", ".", "x", "y", "z">>,
    <<"a">>,
    <<".", "m", "p", "4">>,
    <<"a", ".", "m", "p", "4", "/", "b">>,
    <<"a", ".", "a", "v", "i", ".", "m", "p", "4">>,
    <<"a", ".", "m", "p", "4", ".", "a", "v", "i">>,
    <<"a", ".">> }

\* args.codec when --codec is absent (None): falsy, like the empty string.
NoCodec == << >>

\* Values of --codec: absent, two FourCCs, and strings of three and of
\* five characters.
Codecs ==
  { NoCodec,
    <<"M", "J", "P", "G">>,
    <<"a", "v", "c", "1">>,
    <<"m", "p", "4">>,
    <<"m", "p", "4", "v", "1">> }

\* Target rates are held in thousandths of a frame per second.
\* argparse's default for --fps: 20.0.
DefaultFps == 20000

\* Values of --fps: negative, zero, below 1, exactly 1, a rate that does
\* not divide 1000, the default, just below and exactly 1000, and above.
FpsArgs ==
  { -5000, 0, 500, 1000, 3000, 7500, DefaultFps, 999999, 1000000,
    1000001, 2500000 }

\* The command lines explored by the whole run: every monitor index
\* without --region, and --region together with the default and with an
\* out-of-range index; the other options at their defaults.
ArgSets ==
  { a \in [region : Regions, monitor : MonitorArgs,
            outfile : { DefaultOutfile }, codec : { NoCodec },
            fps : { DefaultFps }] :
      a.region = NoRegion \/ a.monitor \in { -1, DefaultMonitor } }

\* The command lines explored for the codec selection.
CodecArgSets ==
  [region : { NoRegion }, monitor : { DefaultMonitor },
   outfile : Outfiles, codec : Codecs, fps : { DefaultFps }]

\* The command lines explored for the pacing of the loop.
PaceArgSets ==
  [region : { NoRegion }, monitor : { DefaultMonitor },
   outfile : { DefaultOutfile }, codec : { NoCodec }, fps : FpsArgs]

\* Key codes compared in the dispatch.
KeyR == 114
KeyS == 115
KeyQ == 113
KeyEsc == 27

\* Values cv2.waitKey can return: -1 on timeout, plain key codes, an
\* unbound key ('a'), and 'r' with a modifier flag in the high bits.
RawKeys == { -1, KeyEsc, KeyQ, KeyR, KeyS, 97, 1048576 + KeyR }

\* Elapsed seconds between two rate updates (time.time() differences):
\* a clock that went backwards, no elapsed time, and one second.
DtSet == { -1, 0, 1 }

\* measured_fps is held as an integer number of millionths.
FpsScale == 10 ^ 6

VARIABLES
  args,          \* [region, monitor, outfile, codec, fps]: the command line
  pc,            \* position in main()
  sctOpen,       \* the mss capture handle is open
  monitor_rect,  \* the resolved capture rectangle
  fourcc,        \* the codec identifier handed to the VideoWriter
  writer,        \* the variable writer holds a VideoWriter (is not None)
  sink,          \* lifecycle of the VideoWriter: Unopened / Open / Closed
  closeCalls,    \* number of writer.release() calls
  windows,       \* number of open preview windows
  recording,
  frame_count,
  measured_fps,
  iter,          \* number of frames grabbed (iterations begun)
  frame,         \* the frame of the current iteration
  shown,         \* frames pushed to the preview, in order
  written,       \* frames handed to writer.write, in order
  snapshots,     \* frames handed to cv2.imwrite, in order
  dt,            \* the elapsed time of the last rate update
  wait,          \* the timeout handed to the last poll, in milliseconds
  polls,         \* number of polls of the keyboard
  key,           \* the masked result of the last poll
  toggles,       \* number of toggle-record commands dispatched
  cmds,          \* the commands dispatched so far, in order
  exc,           \* the exception in flight: none / interrupt / error
  raisedAt,      \* the pc at which the exception was raised
  path,          \* how the run left its normal course
  quitSeen,      \* a quit command has been dispatched
  exit           \* running / normal / propagated

vars ==
  << args, pc, sctOpen, monitor_rect, fourcc, writer, sink, closeCalls, windows,
     recording, frame_count, measured_fps, iter, frame, shown, written,
     snapshots, dt, wait, polls, key, toggles, cmds, exc, raisedAt,
     path, quitSeen, exit >>

\* The variables of the loop body, for UNCHANGED clauses.
setupVars == << args, sctOpen, monitor_rect, fourcc, writer, windows >>
loopData == << frame_count, measured_fps, iter, frame, shown, written,
               snapshots, dt, wait, polls, key, toggles, cmds,
               recording >>
excVars == << exc, raisedAt, path, quitSeen, exit >>

NoRect == [left |-> 0, top |-> 0, width |-> 0, height |-> 0]
NoFrame == [id |-> 0, status |-> "none", fps |-> 0]

(* --------------------------- pure helpers ----------------------------- *)

\* `if args.region:` -- None and the empty list are falsy.
Truthy(region) == Len(region) > 0

\* monitors[i] of the source.
ChosenMonitor_OffByOne(i) == Monitors[IF i = 0 THEN 1 ELSE i]
ChosenMonitor(i) == Monitors[i + 1]

\* The range check of the monitor index.
InvalidMonitor(i) == i < 0 \/ i >= Len(Monitors)

\* The rectangle built from --region.
RegionRect(region) ==
  [left |-> region[1], top |-> region[2],
   width |-> region[3], height |-> region[4]]

\* The rectangle built from the chosen monitor.
MonitorRect(i) ==
  [left |-> ChosenMonitor(i).left, top |-> ChosenMonitor(i).top,
   width |-> ChosenMonitor(i).width, height |-> ChosenMonitor(i).height]

\* ord(c) for the characters of the strings explored.
CharCode(c) ==
  CASE c = "." -> 46 [] c = "/" -> 47 [] c = "1" -> 49 [] c = "4" -> 52
    [] c = "A" -> 65 [] c = "D" -> 68 [] c = "G" -> 71 [] c = "I" -> 73
    [] c = "J" -> 74 [] c = "M" -> 77 [] c = "P" -> 80 [] c = "V" -> 86
    [] c = "X" -> 88
    [] c = "a" -> 97 [] c = "b" -> 98 [] c = "c" -> 99 [] c = "e" -> 101
    [] c = "i" -> 105 [] c = "m" -> 109 [] c = "p" -> 112
    [] c = "r" -> 114 [] c = "t" -> 116 [] c = "u" -> 117
    [] c = "v" -> 118 [] c = "x" -> 120 [] c = "y" -> 121
    [] c = "z" -> 122

\* chr(n), the inverse of CharCode on the characters explored.
CodeChar(n) ==
  CHOOSE c \in { ".", "/", "1", "4", "A", "D", "G", "I", "J", "M", "P",
                 "V", "X", "a", "b", "c", "e", "i", "m", "p", "r", "t",
                 "u", "v", "x", "y", "z" } : CharCode(c) = n

\* str.lower(): upper-case letters move up by 32, the rest stay.
LowerChar(c) ==
  IF CharCode(c) >= 65 /\ CharCode(c) <= 90
    THEN CodeChar(CharCode(c) + 32) ELSE c
Lower(str) == [k \in 1 .. Len(str) |-> LowerChar(str[k])]

\* str.rfind(c): the last position of c in str, 0 when there is none
\* (positions are 1-based here, Python's are one less).
RFind(str, c) ==
  LET at == { k \in 1 .. Len(str) : str[k] = c }
  IN  IF at = { } THEN 0 ELSE CHOOSE k \in at : \A j \in at : j <= k

\* os.path.splitext(filename)[1]: the text from the last dot on, when that
\* dot lies in the last path component and some character other than a
\* dot precedes it there; the empty string otherwise.
SplitExt(filename) ==
  LET sep == RFind(filename, "/")
      dot == RFind(filename, ".")
  IN  IF dot > sep
           /\ \E k \in (sep + 1) .. (dot - 1) : filename[k] # "."
        THEN SubSeq(filename, dot, Len(filename))
        ELSE << >>

\* cv2.VideoWriter_fourcc(c1, c2, c3, c4): the four codes, low byte first.
Fourcc(c) ==
  CharCode(c[1]) + 256 * CharCode(c[2]) + 65536 * CharCode(c[3])
    + 16777216 * CharCode(c[4])

\* cv2.VideoWriter_fourcc(*override) takes exactly four characters: any
\* other number of them raises TypeError.
CodecRaises(override) == Len(override) > 0 /\ Len(override) # 4

\* select_codec_by_ext, when it does not raise.
SelectCodecByExt_NoLower(filename, override) ==
  IF Len(override) > 0 THEN Fourcc(override)
  ELSE LET ext == SplitExt(filename)
       IN  IF ext \in { <<".", "m", "p", "4">>, <<".", "m", "4", "v">> }
             THEN Fourcc(<<"m", "p", "4", "v">>)
           ELSE IF ext \in { <<".", "a", "v", "i">> }
             THEN Fourcc(<<"X", "V", "I", "D">>)
           ELSE Fourcc(<<"X", "V", "I", "D">>)
SelectCodecByExt(filename, override) ==
  IF Len(override) > 0 THEN Fourcc(override)
  ELSE LET ext == Lower(SplitExt(filename))
       IN  IF ext \in { <<".", "m", "p", "4">>, <<".", "m", "4", "v">> }
             THEN Fourcc(<<"m", "p", "4", "v">>)
           ELSE IF ext \in { <<".", "a", "v", "i">> }
             THEN Fourcc(<<"X", "V", "I", "D">>)
           ELSE Fourcc(<<"X", "V", "I", "D">>)

\* `& 0xFF` on the result of waitKey (two's complement: -1 gives 255).
MaskKey(raw) == raw % 256

\* The if / elif chain on the key.
Command_SnapshotToggles(k) ==
  IF k = KeyR \/ k = KeyS THEN "toggle"
  ELSE IF k = KeyQ \/ k = KeyEsc THEN "quit"
  ELSE "none"
Command(k) ==
  IF k = KeyR THEN "toggle"
  ELSE IF k = KeyS THEN "snapshot"
  ELSE IF k = KeyQ \/ k = KeyEsc THEN "quit"
  ELSE "none"

\* `cv2.imwrite(name, frame)`: the image saved by a snapshot.
SnapshotFrame_Raw == [frame EXCEPT !.status = "raw", !.fps = 0]
SnapshotFrame == frame

\* `recording = not recording`.
ToggleValue_HeldAtZeroRate(rec) == IF measured_fps = 0 THEN rec ELSE ~rec
ToggleValue_Set(rec) == TRUE
ToggleValue(rec) == ~rec

\* `if recording and writer:`.
WriteGuard_IgnoresRecording == writer
WriteGuard_NoWriterCheck == recording
WriteGuard_DropsAtUnknownRate == recording /\ writer /\ measured_fps > 0
WriteGuard == recording /\ writer

\* `if writer:` of the finally block.
ReleaseGuard_Always == TRUE
ReleaseGuard == writer

\* `except KeyboardInterrupt:` -- the exceptions the handler catches.
Catches_Nothing(kind) == FALSE
Catches(kind) == kind = "interrupt"

\* Where `break` leads: out of the while loop, into the finally block.
BreakTarget_Continue == "grab"
BreakTarget == "finally"

\* The status text of the overlay.
StatusText_Swapped(rec) == IF rec THEN "REC OFF" ELSE "REC ON"
StatusText(rec) == IF rec THEN "REC ON" ELSE "REC OFF"

\* `if dt > 0`: the elapsed times for which the rate is recomputed.
Divides_NonNegative(elapsed) == elapsed >= 0
Divides(elapsed) == elapsed > 0

\* The smoothing of the measured rate, in millionths.
RateUpdate(est, elapsed) ==
  IF Divides(elapsed)
    THEN (est * 9 + (FpsScale \div elapsed)) \div 10 ELSE est

\* max(1, int(1000 / max(1, args.fps))), the rate in thousandths: int()
\* truncates, and the quotient is never negative here.
PollWait_NoLowerBound(fps) ==
  (1000 * 1000) \div (IF fps > 1000 THEN fps ELSE 1000)
PollWait(fps) ==
  LET rate == IF fps > 1000 THEN fps ELSE 1000
      ms == (1000 * 1000) \div rate
  IN  IF ms > 1 THEN ms ELSE 1

\* f"{measured_fps:.1f}": the rate rounded to tenths.
FormatFps(est) == (est + (FpsScale \div 20)) \div (FpsScale \div 10)

(* ------------------------------ control -------------------------------- *)

LoopPcs == { "grab", "overlay", "show", "write", "rate", "poll", "dispatch" }

\* The order of the statements of the loop body (lines 92-119): the step
\* that follows step p when p completes.
StepAfter_WriteBeforeShow(p) ==
  CASE p = "grab" -> "overlay"
    [] p = "overlay" -> "write"
    [] p = "write" -> "show"
    [] p = "show" -> "rate"
    [] p = "rate" -> "poll"
    [] p = "poll" -> "dispatch"
StepAfter(p) ==
  CASE p = "grab" -> "overlay"
    [] p = "overlay" -> "show"
    [] p = "show" -> "write"
    [] p = "write" -> "rate"
    [] p = "rate" -> "poll"
    [] p = "poll" -> "dispatch"

\* The loop steps that call into mss or cv2 and so can fail with an error.
CallsCollaborator ==
  \/ pc \in { "grab", "overlay", "show", "poll" }
  \/ pc = "write" /\ WriteGuard
  \/ pc = "dispatch" /\ Command(key) = "snapshot"

\* The state before main() runs, for the command line a.
InitWith(a) ==
  /\ args = a
  /\ pc = "start"
  /\ sctOpen = FALSE
  /\ monitor_rect = NoRect
  /\ fourcc = 0
  /\ writer = FALSE
  /\ sink = "Unopened"
  /\ closeCalls = 0
  /\ windows = 0
  /\ recording = FALSE
  /\ frame_count = 0
  /\ measured_fps = 0
  /\ iter = 0
  /\ frame = NoFrame
  /\ shown = << >>
  /\ written = << >>
  /\ snapshots = << >>
  /\ dt = 0
  /\ wait = 0
  /\ polls = 0
  /\ key = MaskKey(-1)
  /\ toggles = 0
  /\ cmds = << >>
  /\ exc = "none"
  /\ raisedAt = "none"
  /\ path = "none"
  /\ quitSeen = FALSE
  /\ exit = "running"

Init == \E a \in ArgSets : InitWith(a)

\* Lines 51-52: parse_args(); sct = mss.mss().
Start ==
  /\ pc = "start"
  /\ sctOpen' = TRUE
  /\ pc' = "resolve"
  /\ UNCHANGED << args, monitor_rect, fourcc, writer, sink, closeCalls,
                  windows >>
  /\ UNCHANGED << loopData, excVars >>

\* Lines 55-71: the capture rectangle, or the early return.
ResolveRegion ==
  /\ pc = "resolve"
  /\ IF Truthy(args.region)
       THEN /\ monitor_rect' = RegionRect(args.region)
            /\ pc' = "open_writer"
            /\ UNCHANGED << path, exit >>
       ELSE IF InvalidMonitor(args.monitor)
         THEN /\ pc' = "done"
              /\ path' = "invalid"
              /\ exit' = "normal"
              /\ UNCHANGED monitor_rect
         ELSE /\ monitor_rect' = MonitorRect(args.monitor)
              /\ pc' = "open_writer"
              /\ UNCHANGED << path, exit >>
  /\ UNCHANGED << args, sctOpen, fourcc, writer, sink, closeCalls,
                  windows >>
  /\ UNCHANGED << loopData, exc, raisedAt, quitSeen >>

\* Lines 74-78: the codec identifier and the VideoWriter; the encoder
\* accepts or rejects it. Line 74 lies outside the try: a TypeError of
\* VideoWriter_fourcc leaves main() with no teardown.
OpenWriter ==
  /\ pc = "open_writer"
  /\ IF CodecRaises(args.codec)
       THEN /\ exc' = "error"
            /\ raisedAt' = pc
            /\ path' = "setup"
            /\ exit' = "propagated"
            /\ pc' = "done"
            /\ UNCHANGED << fourcc, writer, sink >>
       ELSE /\ fourcc' = SelectCodecByExt(args.outfile, args.codec)
            /\ \E opened \in BOOLEAN :
                 /\ writer' = opened
                 /\ sink' = IF opened THEN "Open" ELSE "Unopened"
            /\ pc' = "window"
            /\ UNCHANGED << exc, raisedAt, path, exit >>
  /\ UNCHANGED << args, sctOpen, monitor_rect, closeCalls, windows >>
  /\ UNCHANGED << loopData, quitSeen >>

\* Lines 80-88: the loop's variables and the preview window.
CreateWindow ==
  /\ pc = "window"
  /\ recording' = FALSE
  /\ frame_count' = 0
  /\ measured_fps' = 0
  /\ windows' = windows + 1
  /\ pc' = "grab"
  /\ UNCHANGED << args, sctOpen, monitor_rect, fourcc, writer, sink,
                  closeCalls >>
  /\ UNCHANGED << iter, frame, shown, written, snapshots, dt, wait, polls,
                  key, toggles, cmds >>
  /\ UNCHANGED excVars

\* Lines 85-88, outside the try: an error of the window calls or an
\* interrupt there leaves main() with no teardown.
SetupRaise ==
  /\ pc = "window"
  /\ \E kind \in { "interrupt", "error" } : exc' = kind
  /\ raisedAt' = pc
  /\ path' = "setup"
  /\ exit' = "propagated"
  /\ pc' = "done"
  /\ UNCHANGED << setupVars, sink, closeCalls, loopData, quitSeen >>

\* Lines 92-95: grab and convert one frame.
Grab ==
  /\ pc = "grab"
  /\ iter < MaxIter
  /\ iter' = iter + 1
  /\ frame' = [id |-> iter + 1, status |-> "raw", fps |-> 0]
  /\ pc' = StepAfter(pc)
  /\ UNCHANGED << setupVars, sink, closeCalls, excVars >>
  /\ UNCHANGED << frame_count, measured_fps, shown, written, snapshots,
                  dt, wait, polls, key, toggles, cmds,
                  recording >>

\* Lines 98-103: the overlay is drawn into the frame.
Overlay ==
  /\ pc = "overlay"
  /\ frame' = [frame EXCEPT !.status = StatusText(recording),
                            !.fps = FormatFps(measured_fps)]
  /\ pc' = StepAfter(pc)
  /\ UNCHANGED << setupVars, sink, closeCalls, excVars >>
  /\ UNCHANGED << frame_count, measured_fps, iter, shown, written,
                  snapshots, dt, wait, polls, key, toggles, cmds,
                  recording >>

\* Line 106: the preview.
Show ==
  /\ pc = "show"
  /\ shown' = Append(shown, frame)
  /\ pc' = StepAfter(pc)
  /\ UNCHANGED << setupVars, sink, closeCalls, excVars >>
  /\ UNCHANGED << frame_count, measured_fps, iter, frame, written,
                  snapshots, dt, wait, polls, key, toggles, cmds,
                  recording >>

\* Lines 109-111: the frame goes to the sink when recording and writer.
Write ==
  /\ pc = "write"
  /\ IF WriteGuard
       THEN /\ written' = Append(written, frame)
            /\ frame_count' = frame_count + 1
       ELSE UNCHANGED << written, frame_count >>
  /\ pc' = StepAfter(pc)
  /\ UNCHANGED << setupVars, sink, closeCalls, excVars >>
  /\ UNCHANGED << measured_fps, iter, frame, shown, snapshots, dt, wait,
                  polls, key, toggles, cmds,
                  recording >>

\* Lines 114-117: the elapsed time (now - last_time, whatever the clock
\* gives) and the measured rate. A division by a zero dt would raise
\* ZeroDivisionError inside the try.
Rate ==
  /\ pc = "rate"
  /\ \E d \in DtSet :
       /\ dt' = d
       /\ IF Divides(d) /\ d = 0
            THEN /\ exc' = "error"
                 /\ raisedAt' = pc
                 /\ path' = "error"
                 /\ pc' = IF Catches("error") THEN "except" ELSE "finally"
                 /\ UNCHANGED measured_fps
            ELSE /\ measured_fps' = RateUpdate(measured_fps, d)
                 /\ pc' = StepAfter(pc)
                 /\ UNCHANGED << exc, raisedAt, path >>
  /\ UNCHANGED << setupVars, sink, closeCalls, quitSeen, exit >>
  /\ UNCHANGED << frame_count, iter, frame, shown, written, snapshots,
                  wait, polls, key, toggles, cmds,
                  recording >>

\* Line 119: one poll of the keyboard, with the pacing timeout.
Poll ==
  /\ pc = "poll"
  /\ wait' = PollWait(args.fps)
  /\ polls' = polls + 1
  /\ \E raw \in RawKeys : key' = MaskKey(raw)
  /\ pc' = StepAfter(pc)
  /\ UNCHANGED << setupVars, sink, closeCalls, excVars >>
  /\ UNCHANGED << frame_count, measured_fps, iter, frame, shown, written,
                  snapshots, dt, toggles, cmds,
                  recording >>

\* Lines 120-133: the dispatch of the key.
Dispatch ==
  /\ pc = "dispatch"
  /\ recording' =
       IF Command(key) = "toggle" THEN ToggleValue(recording) ELSE recording
  /\ toggles' = IF Command(key) = "toggle" THEN toggles + 1 ELSE toggles
  /\ cmds' = Append(cmds, Command(key))
  /\ snapshots' =
       IF Command(key) = "snapshot" THEN Append(snapshots, SnapshotFrame)
       ELSE snapshots
  /\ IF Command(key) = "quit"
       THEN /\ pc' = BreakTarget
            /\ quitSeen' = TRUE
            /\ path' = "quit"
       ELSE /\ pc' = "grab"
            /\ UNCHANGED << quitSeen, path >>
  /\ UNCHANGED << setupVars, sink, closeCalls, exc, raisedAt, exit >>
  /\ UNCHANGED << frame_count, measured_fps, iter, frame, shown, written,
                  dt, wait, polls, key >>

\* A KeyboardInterrupt raised inside the try (lines 91-133).
Interrupt ==
  /\ pc \in LoopPcs
  /\ exc' = "interrupt"
  /\ raisedAt' = pc
  /\ path' = "interrupt"
  /\ pc' = IF Catches("interrupt") THEN "except" ELSE "finally"
  /\ UNCHANGED << setupVars, sink, closeCalls, loopData, quitSeen, exit >>

\* An exception other than KeyboardInterrupt raised by a collaborator
\* inside the try: no handler matches, the finally block runs.
UnexpectedError ==
  /\ pc \in LoopPcs
  /\ CallsCollaborator
  /\ exc' = "error"
  /\ raisedAt' = pc
  /\ path' = "error"
  /\ pc' = IF Catches("error") THEN "except" ELSE "finally"
  /\ UNCHANGED << setupVars, sink, closeCalls, loopData, quitSeen, exit >>

\* Lines 135-136: the handler; the exception is handled.
Except ==
  /\ pc = "except"
  /\ exc' = "none"
  /\ pc' = "finally"
  /\ UNCHANGED << setupVars, sink, closeCalls, loopData >>
  /\ UNCHANGED << raisedAt, path, quitSeen, exit >>

\* Lines 137-142, the finally block: writer.release() when writer holds a
\* VideoWriter, cv2.destroyAllWindows(), sct.close(); then main() returns,
\* or the exception in flight leaves it.
Finally ==
  /\ pc = "finally"
  /\ IF ReleaseGuard
       THEN /\ sink' = "Closed"
            /\ closeCalls' = closeCalls + 1
       ELSE UNCHANGED << sink, closeCalls >>
  /\ windows' = 0
  /\ sctOpen' = FALSE
  /\ pc' = "done"
  /\ exit' = IF exc = "none" THEN "normal" ELSE "propagated"
  /\ UNCHANGED << args, monitor_rect, fourcc, writer, loopData >>
  /\ UNCHANGED << exc, raisedAt, path, quitSeen >>

Next ==
  \/ Start
  \/ ResolveRegion
  \/ OpenWriter
  \/ CreateWindow
  \/ SetupRaise
  \/ Grab
  \/ Overlay
  \/ Show
  \/ Write
  \/ Rate
  \/ Poll
  \/ Dispatch
  \/ Interrupt
  \/ UnexpectedError
  \/ Except
  \/ Finally

Spec == Init /\ [][Next]_vars

\* The interpreter keeps executing main(): a step that can be taken is
\* eventually taken.
FairSpec == Spec /\ WF_vars(Next)

\* The start of main() up to the construction of the VideoWriter, over the
\* output paths and codec overrides.
CodecInit == \E a \in CodecArgSets : InitWith(a)
CodecNext == Start \/ ResolveRegion \/ OpenWriter
CodecSpec == CodecInit /\ [][CodecNext]_vars

\* The whole run with the default capture rectangle, over the target rates.
PaceInit == \E a \in PaceArgSets : InitWith(a)
PaceSpec == PaceInit /\ [][Next]_vars

(* ============================== claims ================================ *)

TeardownPcs == { "except", "finally", "done" }

\* The teardown of the finally block has run to its end.
TornDown ==
  /\ pc = "done"
  /\ sink # "Open"
  /\ (writer => sink = "Closed" /\ closeCalls = 1)
  /\ windows = 0
  /\ ~sctOpen

\* C1: a frame is handed to the sink only by the write step of an
\* iteration in which recording is on and the sink is Open (and stays
\* Open): never while idle, never with a sink that failed to open, never
\* after the sink has been closed.
C1_WriteOnlyWhenRecordingAndOpen ==
  [][written' # written =>
       /\ pc = "write"
       /\ recording
       /\ writer
       /\ sink = "Open"
       /\ sink' = "Open"
       /\ written' = Append(written, frame)]_vars

\* Frames were written, later recording was switched off and frames were
\* still shown, and the sink has been closed.
C1_Witness ==
  /\ Len(written) >= 1
  /\ Len(shown) > Len(written)
  /\ ~recording
  /\ sink = "Closed"

C3_UnopenedSinkNoWritesPreviewKeepsUp ==
  (pc \in LoopPcs \cup TeardownPcs /\ path # "invalid" /\ ~writer) =>
     /\ written = << >>
     /\ frame_count = 0
     /\ (pc \in { "write", "rate", "poll", "dispatch" } =>
           /\ Len(shown) = iter
           /\ shown[iter] = frame)

\* The sink failed to open, recording was toggled on, and iterations went
\* on with recording on.
C3_Witness ==
  /\ ~writer
  /\ recording
  /\ pc = "poll"
  /\ iter >= 3
  /\ Len(shown) = iter
  /\ shown[iter].status = "REC ON"

\* C4 as stated: recording on implies the sink is Open.
C4_RecordingImpliesOpen ==
  recording => sink = "Open"

\* C4 as amended: while the loop runs, recording on implies that the sink
\* is Open or that the sink failed to open and nothing has been written;
\* the toggle is accepted with an unopened sink and stays without effect.
C4_RecordingOpenOrIneffective ==
  (recording /\ pc \in LoopPcs) =>
     \/ sink = "Open" /\ writer
     \/ sink = "Unopened" /\ ~writer /\ written = << >> /\ frame_count = 0

\* Recording is on with an unopened sink, past the write step.
C4_Witness ==
  /\ recording
  /\ sink = "Unopened"
  /\ pc = "rate"
  /\ frame.status = "REC ON"

\* C5: an interrupt raised at a step of the loop is caught (the handler
\* is entered and the exception is no longer in flight afterwards), the
\* run eventually ends, and it ends normally with the sink closed if it
\* was open, no window left and the capture handle released.
C5_InterruptCaughtAndTornDown ==
  /\ [][exc # "interrupt" /\ exc' = "interrupt" /\ pc \in LoopPcs
          => pc' = "except"]_vars
  /\ [](pc = "done" /\ path = "interrupt" => TornDown /\ exit = "normal"
                                              /\ exc = "none")
  /\ (path = "interrupt" ~> pc = "done")

\* An interrupt raised at the sink write of a recording iteration, run
\* ended.
C5_Witness ==
  /\ pc = "done"
  /\ path = "interrupt"
  /\ raisedAt = "write"
  /\ recording
  /\ writer
  /\ exit = "normal"

\* C6: a quit is dispatched only at the dispatch that follows a poll, with
\* key q or ESC, in either recording state; from then on nothing is
\* captured, shown or written, and the teardown eventually completes.
C6_QuitTerminal ==
  /\ [][~quitSeen /\ quitSeen' =>
          pc = "dispatch" /\ key \in { KeyQ, KeyEsc }]_vars
  /\ [][pc = "dispatch" /\ key \in { KeyQ, KeyEsc } /\ exc' = "none" =>
          quitSeen' /\ pc' \in TeardownPcs]_vars
  /\ [][quitSeen =>
          /\ iter' = iter
          /\ shown' = shown
          /\ written' = written
          /\ snapshots' = snapshots
          /\ pc' \in TeardownPcs]_vars
  /\ (quitSeen ~> TornDown /\ exit = "normal")

\* A quit dispatched while recording, run ended.
C6_Witness ==
  /\ quitSeen
  /\ recording
  /\ Len(written) >= 1
  /\ pc = "done"

\* C7: a run that ended on an invalid monitor index never entered the
\* loop and left nothing opened: no capture handle, no sink, no window.
C7_InvalidMonitorLeavesNothingOpen ==
  path = "invalid" =>
     /\ pc = "done"
     /\ iter = 0
     /\ ~sctOpen
     /\ ~writer
     /\ sink = "Unopened"
     /\ windows = 0

\* C8: recording is on exactly when an odd number of toggle-record
\* commands has been dispatched, whatever other commands came in between:
\* one toggle flips it, two toggles restore it.
C8_ToggleInvolution ==
  /\ [](recording = (toggles % 2 = 1))
  /\ [][toggles' # toggles => recording' = ~recording]_vars

\* Toggle, snapshot (taken with the ON overlay), toggle: recording is off
\* again.
C8_Witness ==
  /\ toggles = 2
  /\ ~recording
  /\ Len(snapshots) = 1
  /\ snapshots[1].status = "REC ON"

\* C9: recording changes only in the dispatch of the toggle-record key;
\* the dispatch of a snapshot, of an unbound key or of a timed-out poll
\* leaves it unchanged and goes back to the top of the loop; no other step
\* changes it.
C9_OnlyToggleChangesRecording ==
  /\ [][recording' # recording =>
          pc = "dispatch" /\ key = KeyR /\ pc' = "grab"]_vars
  /\ [][(pc = "dispatch" /\ key \notin { KeyR, KeyQ, KeyEsc }
           /\ exc' = "none" /\ pc' # pc) =>
          recording' = recording /\ pc' = "grab" /\ toggles' = toggles]_vars

\* A snapshot taken while recording, after which the loop went on
\* recording.
C9_Witness ==
  /\ recording
  /\ Len(snapshots) >= 1
  /\ snapshots[1].status = "REC ON"
  /\ iter > snapshots[1].id
  /\ Len(written) >= 2

C10_WitnessMonitor ==
  /\ args.region = NoRegion
  /\ args.monitor = 2
  /\ monitor_rect = [left |-> 20, top |-> 0, width |-> 10, height |-> 8]
  /\ iter >= 1

\* C11: whenever the capture loop runs, the capture rectangle has
\* non-negative left and top and positive width and height, whether it
\* came from a monitor index or from --region.
C11_LoopRegionWellFormed ==
  pc \in LoopPcs =>
     /\ monitor_rect.left >= 0
     /\ monitor_rect.top >= 0
     /\ monitor_rect.width > 0
     /\ monitor_rect.height > 0

\* The output paths whose extension is .mp4 or .m4v in any case:
\* capture.mp4, a.MP4, a.m4v, a.avi.mp4.
Mp4Outfiles ==
  { DefaultOutfile,
    <<"a", ".", "M", "P", "4">>,
    <<"a", ".", "m", "4", "v">>,
    <<"a", ".", "a", "v", "i", ".", "m", "p", "4">> }

\* The identifiers of "mp4v" and "XVID": the character codes 109 112 52
\* 118 and 88 86 73 68, low byte first.
Mp4vId == 109 + 256 * 112 + 65536 * 52 + 16777216 * 118
XvidId == 88 + 256 * 86 + 65536 * 73 + 16777216 * 68

\* The codec selection is over: the VideoWriter step was taken.
CodecSelected == pc = "window" \/ raisedAt = "open_writer"

\* C12: the codec selection always yields an identifier: that of the
\* override when there is one, else mp4v for an .mp4 or .m4v path in any
\* case and XVID for every other path.
C12_CodecTotalAndMapped ==
  CodecSelected =>
     /\ exc = "none"
     /\ fourcc =
          IF args.codec # NoCodec
            THEN CharCode(args.codec[1]) + 256 * CharCode(args.codec[2])
                   + 65536 * CharCode(args.codec[3])
                   + 16777216 * CharCode(args.codec[4])
          ELSE IF args.outfile \in Mp4Outfiles THEN Mp4vId
          ELSE XvidId

\* The same mapping for the command lines with no override or with one of
\* four characters; an override of another length raises at the selection.
C12_MappingForFourCC ==
  CodecSelected =>
     IF args.codec # NoCodec /\ Len(args.codec) # 4
       THEN exc = "error" /\ exit = "propagated" /\ fourcc = 0 /\ sctOpen
       ELSE /\ exc = "none"
            /\ fourcc =
                 IF args.codec # NoCodec
                   THEN CharCode(args.codec[1]) + 256 * CharCode(args.codec[2])
                          + 65536 * CharCode(args.codec[3])
                          + 16777216 * CharCode(args.codec[4])
                 ELSE IF args.outfile \in Mp4Outfiles THEN Mp4vId
                 ELSE XvidId

\* C13: a rate update whose elapsed time is zero or negative leaves the
\* estimate as it was and raises no error; the estimate changes only in a
\* rate update with a positive elapsed time; it is 0 until the first rate
\* update.
C13_NonPositiveDtKeepsEstimate ==
  /\ [][(pc = "rate" /\ pc' # pc /\ dt' <= 0) =>
          measured_fps' = measured_fps /\ exc' # "error"]_vars
  /\ [][measured_fps' # measured_fps =>
          pc = "rate" /\ pc' = "poll" /\ dt' > 0]_vars
  /\ [](raisedAt = "rate" => path = "interrupt")
  /\ []((iter = 0 \/ (iter = 1 /\ pc \in { "overlay", "show", "write", "rate" }))
          => measured_fps = 0)

\* A positive elapsed time moved the estimate to 0.1, and the next update,
\* with a negative elapsed time, left it there.
C13_Witness ==
  /\ pc = "poll"
  /\ iter = 2
  /\ dt = -1
  /\ measured_fps = FpsScale \div 10

\* The frames shown are those grabbed so far, in order, each overlaid.
ShownAreGrabbed(n) ==
  /\ Len(shown) = n
  /\ \A k \in 1 .. n : shown[k].id = k /\ shown[k].status # "raw"

\* C14: each iteration shows exactly one frame, recording or idle, sink
\* open or not: after the preview step of an iteration, and so at every
\* poll, as many frames have been shown as grabbed, the last one being the
\* frame of the iteration; before it, one less. The steps of an iteration
\* follow in the order grab, overlay, preview, write, rate, poll, dispatch,
\* and each kind of effect happens in its own step only.
C14_OnePreviewPerIterationInOrder ==
  /\ [](pc \in { "write", "rate", "poll", "dispatch" } =>
          ShownAreGrabbed(iter) /\ shown[iter] = frame /\ iter >= 1)
  /\ [](pc \in { "overlay", "show" } => ShownAreGrabbed(iter - 1))
  /\ [](pc = "grab" => ShownAreGrabbed(iter))
  /\ [][(pc \in LoopPcs /\ pc' \in LoopPcs /\ pc' # pc) =>
          << pc, pc' >> \in
            { << "grab", "overlay" >>, << "overlay", "show" >>,
              << "show", "write" >>, << "write", "rate" >>,
              << "rate", "poll" >>, << "poll", "dispatch" >>,
              << "dispatch", "grab" >> }]_vars
  /\ [][/\ iter' # iter => pc = "grab" /\ iter' = iter + 1
        /\ shown' # shown => pc = "show" /\ shown' = Append(shown, frame)
        /\ written' # written => pc = "write"
        /\ polls' # polls => pc = "poll" /\ polls' = polls + 1]_vars

\* The third poll of a run with an unopened sink in which recording was, at
\* the second frame, on: three frames grabbed and shown.
C14_Witness ==
  /\ pc = "poll"
  /\ iter = 3
  /\ Len(shown) = 3
  /\ ~writer
  /\ shown[1].status = "REC OFF"
  /\ shown[2].status = "REC ON"

\* The frames shown with the recording indicator on, in order.
ShownRecording == SelectSeq(shown, LAMBDA f : f.status = "REC ON")

\* C15: with an open sink, once the write step of an iteration is over the
\* frames written are exactly the frames shown while recording, in order
\* and with their overlay: each recording iteration wrote one frame, the
\* one it showed, and none was dropped or written twice; frame_count
\* counts them.
C15_NoFrameDroppedWhileRecording ==
  /\ [](/\ writer
        /\ pc \in { "grab", "overlay", "show", "rate", "poll", "dispatch" }
        => written = ShownRecording)
  /\ []((writer /\ pc = "write") =>
          ShownRecording =
            IF recording THEN Append(written, frame) ELSE written)
  /\ [](frame_count = Len(written))
  /\ [][(pc = "write" /\ pc' = "rate" /\ recording /\ sink = "Open") =>
          /\ written' = Append(written, frame)
          /\ frame = shown[Len(shown)]
          /\ frame.id = iter]_vars

\* Two recording iterations in a row, both written.
C15_Witness ==
  /\ pc = "rate"
  /\ recording
  /\ sink = "Open"
  /\ Len(written) = 2
  /\ written[1].id = 2
  /\ written[2].id = 3
  /\ written[2] = shown[3]

\* C16: a toggle acts from the next iteration on. The frame of the
\* iteration whose dispatch turns recording on carries the OFF indicator
\* and is not written, then or later; the frame of the iteration whose
\* dispatch turns recording off carries the ON indicator and, with an
\* open sink, is the last frame written; so every frame written carries
\* the ON indicator, and from the overlay on the frame of an iteration
\* carries the indicator of the recording state; the first frame of a run
\* is never written.
C16_ToggleActsFromNextIteration ==
  /\ [](\A k \in 1 .. Len(written) : written[k].status = "REC ON")
  /\ [](pc \in { "show", "write", "rate", "poll", "dispatch" } =>
          frame.status = IF recording THEN "REC ON" ELSE "REC OFF")
  /\ [][(pc = "dispatch" /\ ~recording /\ recording') =>
          /\ frame.status = "REC OFF"
          /\ written' = written
          /\ \A k \in 1 .. Len(written) : written[k].id # frame.id]_vars
  /\ [][(pc = "dispatch" /\ recording /\ ~recording' /\ writer) =>
          /\ frame.status = "REC ON"
          /\ written' = written
          /\ written # << >>
          /\ written[Len(written)] = frame]_vars
  /\ [](\A k \in 1 .. Len(written) : written[k].id > 1)

\* Recording was turned on at the first poll and off at the second: of
\* three frames shown only the second was written.
C16_Witness ==
  /\ Len(shown) = 3
  /\ Len(written) = 1
  /\ written[1].id = 2
  /\ shown[1].status = "REC OFF"
  /\ shown[3].status = "REC OFF"
  /\ ~recording

\* C17: the timeout of every poll lies between 1 and 1000 ms and is never
\* 0: it is 1000 for a target rate of at most 1 fps (zero and negative
\* rates included), 1 for a rate of 1000 fps or more, and otherwise the
\* whole number of milliseconds w with w * rate <= 1000 < (w + 1) * rate
\* (rates are in thousandths). Each iteration polls exactly once, and a
\* command is dispatched only after the poll of its own iteration.
C17_PollWaitBoundedOnePollPerIteration ==
  /\ [](polls >= 1 =>
          /\ wait >= 1
          /\ wait <= 1000
          /\ (args.fps <= 1000 => wait = 1000)
          /\ (args.fps >= 1000000 => wait = 1)
          /\ (args.fps > 1000 /\ args.fps < 1000000 =>
                /\ wait * args.fps <= 1000 * 1000
                /\ (wait + 1) * args.fps > 1000 * 1000))
  /\ [](pc = "dispatch" => polls = iter)
  /\ [](pc \in { "grab", "overlay", "show", "write", "rate", "poll" } =>
          polls = IF pc = "grab" THEN iter ELSE iter - 1)
  /\ [][polls' # polls => pc = "poll" /\ pc' = "dispatch"
                          /\ polls' = iter]_vars
  /\ [][(toggles' # toggles \/ snapshots' # snapshots
           \/ quitSeen' # quitSeen) =>
          pc = "dispatch" /\ polls = iter]_vars

\* A target of 7.5 fps: the second poll waited 133 ms.
C17_Witness ==
  /\ args.fps = 7500
  /\ pc = "dispatch"
  /\ iter = 2
  /\ polls = 2
  /\ wait = 133

\* A target above 1000 fps: the poll waited 1 ms.
C17_WitnessFast ==
  /\ args.fps = 2500000
  /\ pc = "dispatch"
  /\ wait = 1

\* The recording flag after the first k dispatched commands: the parity of
\* the toggle commands among them.
RecordingAfter(k) ==
  Cardinality({ i \in 1 .. k : cmds[i] = "toggle" }) % 2 = 1

\* The iterations among the first n that pass Test, in order.
IterationsWhere(n, Test(_)) == SelectSeq([i \in 1 .. n |-> i], Test)

\* The iteration numbers of a sequence of frames.
FrameIds(frames) == [i \in 1 .. Len(frames) |-> frames[i].id]

\* The iterations whose write step (lines 109-111) has been passed.
WriteStepsRun ==
  IF \/ pc \in { "rate", "poll", "dispatch" }
     \/ pc \in TeardownPcs /\ raisedAt \in { "rate", "poll", "dispatch" }
    THEN iter ELSE Len(cmds)

\* C18: the measured rate has no effect on control flow. Two runs that get
\* the same commands and the same sink-open outcome go through the same
\* recording states, previews, sink writes, snapshots and teardown whatever
\* the elapsed times were, because each of these is a function of the
\* commands dispatched so far, of the sink-open outcome and of the position
\* in the loop alone: the recording flag is the parity of the toggles; the
\* k-th preview is frame k with the indicator of the flag after k - 1
\* commands; the frames written are those of the iterations that began
\* recording with a sink; the snapshots are the frames of the iterations
\* whose command was the snapshot; the loop is left on command exactly by
\* a quit, which is the last command; the teardown releases the sink
\* exactly when it was opened, closes the windows and the capture source.
C18_RateHasNoEffectOnControlFlow ==
  /\ recording = RecordingAfter(Len(cmds))
  /\ Len(shown) \in { Len(cmds), Len(cmds) + 1 }
  /\ \A k \in 1 .. Len(shown) :
       /\ shown[k].id = k
       /\ shown[k].status =
            IF RecordingAfter(k - 1) THEN "REC ON" ELSE "REC OFF"
  /\ FrameIds(written) =
       IterationsWhere(WriteStepsRun,
                       LAMBDA k : writer /\ RecordingAfter(k - 1))
  /\ frame_count = Len(written)
  /\ FrameIds(snapshots) =
       IterationsWhere(Len(cmds), LAMBDA k : cmds[k] = "snapshot")
  /\ \A k \in 1 .. Len(cmds) - 1 : cmds[k] # "quit"
  /\ quitSeen = (Len(cmds) > 0 /\ cmds[Len(cmds)] = "quit")
  /\ (pc \in LoopPcs /\ Len(cmds) > 0) => cmds[Len(cmds)] # "quit"
  /\ (pc = "done" /\ path \in { "quit", "interrupt", "error" }) =>
       /\ closeCalls = IF writer THEN 1 ELSE 0
       /\ windows = 0
       /\ ~sctOpen

\* A run to the end with a toggle, a snapshot and a quit, in which the
\* measured rate changed between two previews and the last elapsed time
\* was not positive.
C18_Witness ==
  /\ pc = "done"
  /\ cmds = << "toggle", "snapshot", "quit" >>
  /\ writer
  /\ Len(written) = 2
  /\ Len(snapshots) = 1
  /\ shown[2].fps # shown[3].fps
  /\ measured_fps > 0
  /\ dt <= 0

\* C19: a snapshot is saved only by the dispatch of the snapshot key, and
\* what it saves is the frame last shown in the preview, overlay included,
\* which is the frame grabbed in the same iteration, recording or idle; the
\* frames saved stay as they were saved.
C19_SnapshotIsShownFrame ==
  /\ [][snapshots' # snapshots =>
          /\ pc = "dispatch"
          /\ key = KeyS
          /\ snapshots' = Append(snapshots, shown[Len(shown)])
          /\ shown[Len(shown)].id = iter
          /\ shown[Len(shown)].status =
               IF recording THEN "REC ON" ELSE "REC OFF"]_vars
  /\ [](\A k \in 1 .. Len(snapshots) :
          /\ snapshots[k].id \in 1 .. Len(shown)
          /\ snapshots[k] = shown[snapshots[k].id]
          /\ snapshots[k].status \in { "REC ON", "REC OFF" })
  /\ [](\A k \in 1 .. Len(snapshots) - 1 :
          snapshots[k].id < snapshots[k + 1].id)

\* One snapshot taken idle and one taken recording, each the frame shown
\* in its iteration.
C19_Witness ==
  /\ Len(shown) = 3
  /\ Len(snapshots) = 2
  /\ snapshots[1] = shown[1]
  /\ snapshots[1].status = "REC OFF"
  /\ snapshots[2] = shown[3]
  /\ snapshots[2].status = "REC ON"

=============================================================================
